---- MODULE Spec2Model ----
(***************************************************************************)
(* Model of RunTime.train (src/runtime/run.py): the k-fold orchestration   *)
(* loop with its train / validate / checkpoint cycle, the end-of-fold test *)
(* evaluation (RunTime.predict_and_evaluate_val) and the release of the    *)
(* fold's resources.                                                       *)
(*                                                                         *)
(* A case (image/label pair) is its index in the `images` list.  A model   *)
(* state is the fold it was built for and the number of optimizer updates  *)
(* applied to it.  A loss is a fraction [total, count] (the state of a     *)
(* tf.keras.metrics.Mean); +infinity is 1/0.                               *)
(***************************************************************************)
EXTENDS Integers, Sequences, FiniteSets, TLC

\* ---------------------------------------------------------------- bounds
MaxImages == 4
MaxSplits == 3
MaxEpochs == 2
MaxSteps == 2
MaxBatch == 2
MaxRunFolds == 2
MaxLoss == 2
MaxVol == 4
OverlapDen == 4

\* ------------------------------------------------------ program constants
\* patch_size = [64, 64, 64] where the user gives none (the side of the cube)
DefaultPatchSize == 64

\* train_test_split(..., test_size=0.1, ...)
TestSizeNum == 1
TestSizeDen == 10

\* --------------------------------------------------------------- helpers
None == <<>>
Some(v) == <<v>>

Unbound == [bound |-> FALSE]

Count(s, e) == Cardinality({i \in DOMAIN s : s[i] = e})

IsPrefix(s, t) == Len(s) <= Len(t) /\ \A i \in 1..Len(s) : s[i] = t[i]

\* np.Inf
Inf == [total |-> 1, count |-> 0]

\* tf.keras.metrics.Mean: a fresh accumulator, one more sample, its result
Mean == [total |-> 0, count |-> 0]

\* the accumulator once a NaN sample went in: its total, and so its result, is NaN
NaN == [total |-> 0, count |-> 0, nan |-> TRUE]

IsNaN(m) == "nan" \in DOMAIN m

MeanAdd(m, x) == IF IsNaN(m) THEN m ELSE [total |-> m.total + x, count |-> m.count + 1]

\* a < b on losses (fractions with count >= 0, 1/0 being +infinity)
LossLess(a, b) == a.total * b.count < b.total * a.count

LossEq(a, b) == a.total * b.count = b.total * a.count

\* ------------------------------------------------------- sklearn: KFold
Perms(n) == {p \in [1..n -> 0..(n-1)] : \A i, j \in 1..n : p[i] = p[j] => i = j}

\* the first n % k folds hold n // k + 1 cases, the others n // k
FoldSize(n, k, i) == (n \div k) + (IF i < n % k THEN 1 ELSE 0)

RECURSIVE FoldStart(_, _, _)
FoldStart(n, k, i) == IF i = 0 THEN 0 ELSE FoldStart(n, k, i - 1) + FoldSize(n, k, i - 1)

\* split i (0-based) of KFold(n_splits=k, shuffle=True).split(range(n)), the
\* shuffle being the permutation p: <<train indices, test indices>>
KFoldSplit(p, n, k, i) ==
    LET test == {p[j] : j \in (FoldStart(n, k, i) + 1)..(FoldStart(n, k, i) + FoldSize(n, k, i))}
    IN  <<(0..(n-1)) \ test, test>>

\* ----------------------------------------------- sklearn: train_test_split
\* n_test = ceil(test_size * n_samples)
NumTest(n) == (TestSizeNum * n + TestSizeDen - 1) \div TestSizeDen

\* the possible <<train, validation>> outcomes of the shuffled split of `cases`;
\* none when the train part would be empty (sklearn raises ValueError)
TrainTestSplit(cases) ==
    LET n == Cardinality(cases)
    IN  IF n = 0 \/ n - NumTest(n) = 0 THEN {}
        ELSE {<<cases \ v, v>> : v \in {w \in SUBSET cases : Cardinality(w) = NumTest(n)}}

\* ------------------------------------------------------------------ state
VARIABLES
    args,           \* self.args: nfolds, folds, epochs, steps_per_epoch, batch_size, optimizer,
                    \* patch_size, sw_overlap, blend_mode, tta
    nImages,        \* len(images)
    train_splits,   \* list of train index sets, one per fold
    test_splits,    \* list of test index sets, one per fold
    pc,             \* position in train()
    foldIdx,        \* position of the `for fold in self.args.folds` iterator
    fold,           \* the loop variable
    model, optimizer, train_loader, val_loader, test_loader,   \* locals of train()
    learning_rate,  \* local of train()
    train_loss, val_loss,   \* the Mean accumulators
    checkpoint,     \* the Checkpoints object
    total_steps, current_epoch, local_step, global_step,
    fs,             \* the saved models on disk: path -> model state
    k_metrics,      \* self.k_metrics (kFoldMetrics)
    results_df,     \* self.results_df: the rows appended, in order
    config_writes,  \* number of json.dump(self.config, ...) done
    ev,             \* locals of predict_and_evaluate_val: the loaded model, the step
    exc,            \* the exception that ended the run, if any
    \* history, not read by the program
    calls,          \* the collaborator calls of the fold in progress, in order
    valHist,        \* per validation round of the fold in progress: loss passed to update, model state
    seen,           \* of the fold in progress: the cases train_step / val_step / the test
                    \* evaluation were given, the model states the test predictions were made
                    \* by, whether a train_step had a NaN or infinite loss, the losses
                    \* of the val_step calls of the validation round in progress
    phaseLog,       \* <<fold, phase>> entries of the whole run
    cfg_steps,      \* steps_per_epoch as configured for the run
    config,         \* the patch size in the local patch_size of train(), in self.config
                    \* and in the configuration file
    data,           \* self.data: whether it has a 'test-data' entry
    swLog,          \* history: the configurations inference was invoked with, per call site
    sw              \* the sliding-window inference in progress (SpecSW)

vars == <<args, nImages, train_splits, test_splits, pc, foldIdx, fold,
          model, optimizer, train_loader, val_loader, test_loader, learning_rate,
          train_loss, val_loss, checkpoint,
          total_steps, current_epoch, local_step, global_step,
          fs, k_metrics, results_df, config_writes, ev, exc,
          calls, valHist, seen, phaseLog, cfg_steps,
                   config, data, swLog, sw>>

\* the lists of requested folds: distinct folds of a k-fold split, in any order
FoldLists(k) ==
    {s \in UNION {[1..m -> 0..(k-1)] : m \in 1..MaxRunFolds} :
        \A i, j \in DOMAIN s : s[i] = s[j] => i = j}

Optimizers == {"adam", "sgd"}

\* the configured <<steps_per_epoch, batch_size>>: the batch size is read by
\* train() only where steps_per_epoch is None (line 204), so it varies only there
StepConfigs ==
    {<<None, b>> : b \in 1..MaxBatch} \cup {<<Some(x), 1>> : x \in 1..MaxSteps}

\* KFold needs 2 <= n_splits <= n_samples
SplitCounts(n) == {k \in 2..MaxSplits : k <= n}

\* the training options of a run over n images
TrainingArgs(n) ==
    UNION {{[nfolds |-> k, folds |-> fl, epochs |-> e, steps_per_epoch |-> sb[1],
             batch_size |-> sb[2], optimizer |-> o] :
               fl \in FoldLists(k), e \in 1..MaxEpochs, o \in Optimizers, sb \in StepConfigs} :
           k \in SplitCounts(n)}

\* the patch sizes (cube sides) a user gives; the overlaps, in percent; the blend modes
UserPatchSizes == {32, 64}

Overlaps == {25, 50}

BlendModes == {"uniform", "gaussian"}

\* the inference options of a run
InferenceArgs ==
    [patch_size : {None} \cup {Some(p) : p \in UserPatchSizes}, sw_overlap : Overlaps,
     blend_mode : BlendModes, tta : BOOLEAN]

\* the patch size the configuration file holds when the run starts, if any
StoredPatchSizes == {None, Some(32)}

\* the inputs of a run: train() reads no inference option and the inference calls
\* read no training option, so the training options vary with the inference
\* options held at one value, and the inference options with the training
\* options held at one value
PlainInference(i, d, stored) ==
    /\ i = [patch_size |-> None, sw_overlap |-> 50, blend_mode |-> "gaussian", tta |-> FALSE]
    /\ ~d
    /\ stored = None

PlainTraining(n, t) ==
    /\ n = 3
    /\ t = [nfolds |-> 3, folds |-> <<0>>, epochs |-> 1, steps_per_epoch |-> Some(2),
            batch_size |-> 1, optimizer |-> "adam"]

\* the state RunTime.__init__ leaves, and the locals of train() not yet assigned
Constructed ==
    /\ swLog = {}
    /\ cfg_steps = args.steps_per_epoch
    /\ train_splits = <<>>
    /\ test_splits = <<>>
    /\ foldIdx = 0
    /\ fold = 0
    /\ model = Unbound
    /\ optimizer = Unbound
    /\ train_loader = Unbound
    /\ val_loader = Unbound
    /\ test_loader = Unbound
    /\ learning_rate = Unbound
    /\ train_loss = Mean
    /\ val_loss = Mean
    /\ checkpoint = Unbound
    /\ total_steps = 0
    /\ current_epoch = 0
    /\ local_step = 0
    /\ global_step = 0
    /\ fs = <<>>
    /\ k_metrics = Unbound
    /\ results_df = <<>>
    /\ config_writes = 0
    /\ ev = Unbound
    /\ exc = "none"
    /\ calls = <<>>
    /\ valHist = <<>>
    /\ seen = [train |-> {}, val |-> {}, test |-> {}, by |-> {}, unstable |-> FALSE,
             round |-> Mean]
    /\ phaseLog = <<>>

\* RunTime.__init__ has run; train() has not started
Init ==
    /\ nImages \in 2..MaxImages
    /\ \E t \in TrainingArgs(nImages), i \in InferenceArgs, d \in BOOLEAN,
          stored \in StoredPatchSizes :
          /\ PlainInference(i, d, stored) \/ PlainTraining(nImages, t)
          /\ args = t @@ i
          /\ data = [test_data |-> d]
          /\ config = [local |-> None, self |-> stored, file |-> stored]
    /\ Constructed
    /\ pc = "kfold"
    /\ sw = [phase |-> "idle"]

\* ------------------------------------------------------ paths and files
\* os.path.join(results, 'models', 'best', '{task}_best_model_split_{fold}')
BestModelPath(f) == <<"best", f>>

\* os.path.join(results, 'models', 'last', '{task}_last_model_split_{fold}')
LastModelPath(f) == <<"last", f>>

\* (mutant) the end-of-training save goes to best_model_path itself
FinalSavePathOnBest(best_model_path) == best_model_path

\* best_model_path + '/best/', the target of the end-of-training save
FinalSavePath(best_model_path) == Append(best_model_path, "best")

\* (mutant) the test evaluation is handed the path of the last model
TestModelPathLast(f) == LastModelPath(f)

\* the path handed to predict_and_evaluate_val
TestModelPath(f) == BestModelPath(f)

\* model.save(path): the file system after the write
Save(files, path, m) ==
    [q \in (DOMAIN files) \cup {path} |-> IF q = path THEN m ELSE files[q]]

\* the state of a model object, as a saved model holds it
Snapshot(m) == [fold |-> m.fold, version |-> m.version]

\* ---------------------------------------------- runtime.checkpoints.Checkpoints
Checkpoints(best_model_path, last_model_path, best_val_loss) ==
    [bound |-> TRUE, best_model_path |-> best_model_path,
     last_model_path |-> last_model_path, best_val_loss |-> best_val_loss]

\* (mutant) a loss equal to the best one counts as a new best
ImprovesOrTies(current_val_loss, best_val_loss) == ~LossLess(best_val_loss, current_val_loss)

\* whether update() takes current_val_loss for a new best
Improves(current_val_loss, best_val_loss) == LossLess(current_val_loss, best_val_loss)

\* Checkpoints.update(model, current_val_loss): <<the object, the files>> after it
CheckpointsUpdate(ck, files, m, current_val_loss) ==
    LET withLast == Save(files, ck.last_model_path, Snapshot(m))
    IN  IF Improves(current_val_loss, ck.best_val_loss)
        THEN <<[ck EXCEPT !.best_val_loss = current_val_loss],
               Save(withLast, ck.best_model_path, Snapshot(m))>>
        ELSE <<ck, withLast>>

\* Checkpoints.save_last_model(model, path)
CheckpointsSaveLastModel(files, m, path) == Save(files, path, Snapshot(m))

\* ------------------------------------------------------------ kFoldMetrics
KFoldMetrics == [bound |-> TRUE, epoch_rows |-> <<>>, fold_rows |-> <<>>, training_ends |-> 0]

OnEpochEnd(km, row) == [km EXCEPT !.epoch_rows = Append(@, row)]

OnKFoldEnd(km, f) == [km EXCEPT !.fold_rows = Append(@, f)]

OnTrainingEnd(km) == [km EXCEPT !.training_ends = @ + 1]

\* ------------------------------------------------------------- ProgressBar
\* (mutant) the accumulators are left as they are
ProgressBarResetNone(tl, vl) == <<tl, vl>>

\* progress_bar.reset(): the two loss accumulators after it
ProgressBarReset(tl, vl) == <<Mean, Mean>>

\* ---------------------------------------------------------------- train()
Raise(e) == pc' = "crashed" /\ exc' = e

\* (mutant) the train list is filled with the test part of each split
TrainOfTestPart(split) == split[2]

\* train_splits.append(split[0]); test_splits.append(split[1])
TrainOf(split) == split[1]

TestOf(split) == split[2]

\* lines 114-129: the k-fold splits
GetFolds ==
    /\ pc = "kfold"
    /\ \E p \in Perms(nImages) :
          /\ train_splits' = [i \in 1..args.nfolds |-> TrainOf(KFoldSplit(p, nImages, args.nfolds, i - 1))]
          /\ test_splits' = [i \in 1..args.nfolds |-> TestOf(KFoldSplit(p, nImages, args.nfolds, i - 1))]
    /\ pc' = "config"
    /\ UNCHANGED <<args, nImages, foldIdx, fold, model, optimizer, train_loader, val_loader,
                   test_loader, learning_rate, train_loss, val_loss, checkpoint, total_steps,
                   current_epoch, local_step, global_step, fs, k_metrics, results_df,
                   config_writes, ev, exc, calls, valHist, seen, phaseLog, cfg_steps,
                   config, data, swLog, sw>>

\* lines 131-135: the patch size of the run
PatchSize(given) == IF given = None THEN Some(DefaultPatchSize) ELSE given

\* (mutant) self.config keeps the patch size it was loaded with
SetPatchSizeKept(cfg) == cfg

\* line 143: self.config['patch_size'] = patch_size
SetPatchSize(cfg) == [cfg EXCEPT !.self = cfg.local]

\* (mutant) the configuration file is left as it was
JsonDumpSkipped(cfg) == cfg

\* lines 144-145: json.dump(self.config, outfile)
JsonDump(cfg) == [cfg EXCEPT !.file = cfg.self]

\* lines 131-145: patch size, depth, and the configuration file written back
WriteConfig ==
    /\ pc = "config"
    /\ config' = JsonDump(SetPatchSize([config EXCEPT !.local = PatchSize(args.patch_size)]))
    /\ config_writes' = config_writes + 1
    /\ pc' = "kmetrics"
    /\ UNCHANGED <<args, nImages, train_splits, test_splits, foldIdx, fold, model, optimizer,
                   train_loader, val_loader, test_loader, learning_rate, train_loss, val_loss,
                   checkpoint, total_steps, current_epoch, local_step, global_step, fs,
                   k_metrics, results_df, ev, exc, calls, valHist, seen, phaseLog, cfg_steps,
                   data, swLog, sw>>

\* lines 147-172: self.k_metrics = kFoldMetrics(params)
CreateKMetrics ==
    /\ pc = "kmetrics"
    /\ k_metrics' = KFoldMetrics
    /\ pc' = "loop"
    /\ UNCHANGED <<args, nImages, train_splits, test_splits, foldIdx, fold, model, optimizer,
                   train_loader, val_loader, test_loader, learning_rate, train_loss, val_loss,
                   checkpoint, total_steps, current_epoch, local_step, global_step, fs,
                   results_df, config_writes, ev, exc, calls, valHist, seen, phaseLog, cfg_steps,
                   config, data, swLog, sw>>

\* (mutant) the requested folds are taken from the end of the list
FoldAtFromEnd(i) == args.folds[Len(args.folds) - i + 1]

\* the i-th item (from 1) of `for fold in self.args.folds`
FoldAt(i) == args.folds[i]

\* line 175: the for statement takes the next fold
ForFold ==
    /\ pc = "loop"
    /\ foldIdx < Len(args.folds)
    /\ fold' = FoldAt(foldIdx + 1)
    /\ foldIdx' = foldIdx + 1
    /\ phaseLog' = Append(phaseLog, <<fold', "INIT">>)
    /\ pc' = "init"
    /\ UNCHANGED <<args, nImages, train_splits, test_splits, model, optimizer, train_loader,
                   val_loader, test_loader, learning_rate, train_loss, val_loss, checkpoint,
                   total_steps, current_epoch, local_step, global_step, fs, k_metrics,
                   results_df, config_writes, ev, exc, calls, valHist, seen, cfg_steps,
                   config, data, swLog, sw>>

\* lines 203-206: the steps per epoch in effect from this fold on
StepsPerEpoch(configured, n_train_images, batch_size) ==
    IF configured = None THEN Some(n_train_images \div batch_size) ELSE configured

\* lines 176-284: the fold's data, model, optimizer, accumulators, checkpoints, counters
FoldInit ==
    /\ pc = "init"
    /\ LET outcomes == TrainTestSplit(train_splits[fold + 1]) IN
       IF outcomes = {}
       THEN /\ Raise("ValueError")
            /\ UNCHANGED <<args, model, optimizer, train_loader, val_loader, train_loss,
                           val_loss, checkpoint, total_steps, current_epoch, local_step,
                           phaseLog>>
       ELSE \E sp \in outcomes :
            /\ train_loader' = [bound |-> TRUE, fold |-> fold, imgs |-> sp[1], yielded |-> 0]
            /\ val_loader' = [bound |-> TRUE, fold |-> fold, imgs |-> sp[2], taken |-> {}]
            /\ args' = [args EXCEPT !.steps_per_epoch =
                            StepsPerEpoch(@, Cardinality(sp[1]), args.batch_size)]
            /\ optimizer' = [bound |-> TRUE, fold |-> fold, steps |-> 0]
            /\ model' = [bound |-> TRUE, fold |-> fold, version |-> 0]
            /\ train_loss' = Mean
            /\ val_loss' = Mean
            /\ checkpoint' = Checkpoints(BestModelPath(fold), LastModelPath(fold), Inf)
            /\ total_steps' = args.epochs * args'.steps_per_epoch[1]
            /\ current_epoch' = 1
            /\ local_step' = 1
            /\ phaseLog' = Append(phaseLog, <<fold, "TRAIN_VAL_CYCLE">>)
            /\ pc' = "fetch"
            /\ exc' = exc
    /\ UNCHANGED <<nImages, train_splits, test_splits, foldIdx, fold, test_loader,
                   learning_rate, global_step, fs, k_metrics, results_df, config_writes,
                   ev, calls, valHist, seen, cfg_steps,
                   config, data, swLog, sw>>

\* the cases a batch of the loader is drawn from (a train-mode loader samples
\* patches from any of its images)
BatchSource(loader) == loader.imgs

\* lines 285-291: enumerate(train_loader) yields the next item; the budget test
TrainFetch ==
    /\ pc = "fetch"
    /\ global_step' = train_loader.yielded
    /\ train_loader' = [train_loader EXCEPT !.yielded = @ + 1]
    /\ pc' = IF global_step' >= total_steps THEN "after_loop" ELSE "train_step"
    /\ UNCHANGED <<args, nImages, train_splits, test_splits, foldIdx, fold, model, optimizer,
                   val_loader, test_loader, learning_rate, train_loss, val_loss, checkpoint,
                   total_steps, current_epoch, local_step, fs, k_metrics, results_df,
                   config_writes, ev, exc, calls, valHist, seen, phaseLog, cfg_steps,
                   config, data, swLog, sw>>

\* line 303: the epoch boundary test, after the train step of global_step
EpochBoundary(gs, steps_per_epoch) == (gs + 1) % steps_per_epoch = 0 /\ gs > 0

\* history: the losses of the validation round in progress, none when one starts
RoundLosses(losses) ==
    IF EpochBoundary(global_step, args.steps_per_epoch[1]) THEN Mean ELSE losses

\* lines 293-303: train_step on the fetched batch (its loss a number, or NaN / infinite:
\* train_step, lines 232-247, hands either to train_loss), then the epoch boundary test
TrainStep ==
    /\ pc = "train_step"
    /\ \/ \E l \in 1..MaxLoss :
             /\ train_loss' = MeanAdd(train_loss, l)
             /\ seen' = [seen EXCEPT !.train = @ \cup BatchSource(train_loader),
                                     !.round = RoundLosses(@)]
       \/ /\ train_loss' = NaN
          /\ seen' = [seen EXCEPT !.train = @ \cup BatchSource(train_loader),
                                  !.unstable = TRUE, !.round = RoundLosses(@)]
    /\ model' = [model EXCEPT !.version = @ + 1]
    /\ optimizer' = [optimizer EXCEPT !.steps = @ + 1]
    /\ calls' = Append(calls, "train_step")
    /\ local_step' = local_step + 1
    /\ IF EpochBoundary(global_step, args.steps_per_epoch[1])
       THEN /\ val_loader' = [val_loader EXCEPT !.taken = {}]
            /\ pc' = "val"
       ELSE /\ val_loader' = val_loader
            /\ pc' = "fetch"
    /\ UNCHANGED <<args, nImages, train_splits, test_splits, foldIdx, fold, train_loader,
                   test_loader, learning_rate, val_loss, checkpoint, total_steps,
                   current_epoch, global_step, fs, k_metrics, results_df, config_writes,
                   ev, exc, valHist, phaseLog, cfg_steps,
                   config, data, swLog, sw>>

\* the configuration of one invocation of inference
Invocation(site, patch, overlap, blend, models, tta) ==
    [site |-> site, patch |-> patch, overlap |-> overlap, blend |-> blend,
     models |-> models, tta |-> tta]

\* line 258: roi_size=tuple(patch_size)
ValRoiSize(patch_size) == patch_size

\* lines 256-262: val_step's sliding_window_inference(image, ..., model=model)
ValStepInference ==
    Invocation("val", ValRoiSize(config.local), args.sw_overlap, args.blend_mode, 1, FALSE)

\* lines 307-309: val_step on the next case of val_loader.take(len(val_images))
ValStep ==
    /\ pc = "val"
    /\ \E c \in val_loader.imgs \ val_loader.taken, l \in 1..MaxLoss :
          /\ val_loader' = [val_loader EXCEPT !.taken = @ \cup {c}]
          /\ val_loss' = MeanAdd(val_loss, l)
          /\ seen' = [seen EXCEPT !.val = @ \cup {c}, !.round = MeanAdd(@, l)]
    /\ swLog' = swLog \cup {ValStepInference}
    /\ calls' = Append(calls, "val_step")
    /\ UNCHANGED <<args, nImages, train_splits, test_splits, pc, foldIdx, fold, model,
                   optimizer, train_loader, test_loader, learning_rate, train_loss,
                   checkpoint, total_steps, current_epoch, local_step, global_step, fs,
                   k_metrics, results_df, config_writes, ev, exc, valHist, phaseLog,
                   cfg_steps, config, data, sw>>

\* lines 312-314: the round's loss is read and handed to checkpoint.update
CheckpointUpdate ==
    /\ pc = "val"
    /\ val_loader.taken = val_loader.imgs
    /\ LET current_val_loss == val_loss
           after == CheckpointsUpdate(checkpoint, fs, model, current_val_loss)
       IN  /\ checkpoint' = after[1]
           /\ fs' = after[2]
           /\ valHist' = Append(valHist, [loss |-> current_val_loss, state |-> Snapshot(model)])
    /\ calls' = Append(calls, "checkpoint_update")
    /\ pc' = "logs"
    /\ UNCHANGED <<args, nImages, train_splits, test_splits, foldIdx, fold, model, optimizer,
                   train_loader, val_loader, test_loader, learning_rate, train_loss, val_loss,
                   total_steps, current_epoch, local_step, global_step, k_metrics,
                   results_df, config_writes, ev, exc, seen, phaseLog, cfg_steps,
                   config, data, swLog, sw>>

\* lines 315-320: logs.update, progress_bar.reset, the counters of the next epoch
LogsUpdate ==
    /\ pc = "logs"
    /\ calls' = Append(calls, "logs_update")
    /\ train_loss' = ProgressBarReset(train_loss, val_loss)[1]
    /\ val_loss' = ProgressBarReset(train_loss, val_loss)[2]
    /\ current_epoch' = current_epoch + 1
    /\ local_step' = 1
    /\ pc' = "fetch"
    /\ UNCHANGED <<args, nImages, train_splits, test_splits, foldIdx, fold, model, optimizer,
                   train_loader, val_loader, test_loader, learning_rate, checkpoint,
                   total_steps, global_step, fs, k_metrics, results_df, config_writes, ev,
                   exc, valHist, seen, phaseLog, cfg_steps,
                   config, data, swLog, sw>>

\* lines 321-324: the learning rate is read for adam only, then k_metrics.on_epoch_end;
\* reading a learning_rate that was never assigned raises UnboundLocalError
AfterLoop ==
    /\ pc = "after_loop"
    /\ learning_rate' = IF args.optimizer = "adam"
                        THEN [bound |-> TRUE, fold |-> optimizer.fold]
                        ELSE learning_rate
    /\ IF learning_rate'.bound
       THEN /\ k_metrics' = OnEpochEnd(k_metrics, [fold |-> fold, learning_rate |-> learning_rate'])
            /\ calls' = Append(calls, "on_epoch_end")
            /\ pc' = "save_last"
            /\ exc' = exc
       ELSE /\ Raise("UnboundLocalError")
            /\ UNCHANGED <<k_metrics, calls>>
    /\ UNCHANGED <<args, nImages, train_splits, test_splits, foldIdx, fold, model, optimizer,
                   train_loader, val_loader, test_loader, train_loss, val_loss, checkpoint,
                   total_steps, current_epoch, local_step, global_step, fs, results_df,
                   config_writes, ev, valHist, seen, phaseLog, cfg_steps,
                   config, data, swLog, sw>>

\* lines 325-328: checkpoint.save_last_model(model, best_model_path + '/best/')
SaveLast ==
    /\ pc = "save_last"
    /\ fs' = CheckpointsSaveLastModel(fs, model, FinalSavePath(BestModelPath(fold)))
    /\ calls' = Append(calls, "save_last_model")
    /\ pc' = "prepare_test"
    /\ UNCHANGED <<args, nImages, train_splits, test_splits, foldIdx, fold, model, optimizer,
                   train_loader, val_loader, test_loader, learning_rate, train_loss, val_loss,
                   checkpoint, total_steps, current_epoch, local_step, global_step,
                   k_metrics, results_df, config_writes, ev, exc, valHist, seen, phaseLog,
                   cfg_steps,
                   config, data, swLog, sw>>

\* lines 337-341: test_images = [images[idx] for idx in test_splits[fold]]
TestIndicesOf(f) == test_splits[f + 1]

\* lines 335-353: the fold's test set, its loader and its data frame
PrepareTest ==
    /\ pc = "prepare_test"
    /\ test_loader' = [bound |-> TRUE, fold |-> fold, imgs |-> TestIndicesOf(fold)]
    /\ phaseLog' = Append(phaseLog, <<fold, "FOLD_TEST_EVAL">>)
    /\ pc' = "load"
    /\ UNCHANGED <<args, nImages, train_splits, test_splits, foldIdx, fold, model, optimizer,
                   train_loader, val_loader, learning_rate, train_loss, val_loss, checkpoint,
                   total_steps, current_epoch, local_step, global_step, fs, k_metrics,
                   results_df, config_writes, ev, exc, calls, valHist, seen, cfg_steps,
                   config, data, swLog, sw>>

\* get_test_df(self.df, test_df_ids): the rows of the given case ids
GetTestDf(ids) == ids

\* ------------------------------------------------ predict_and_evaluate_val
\* lines 64-69: load_model(model_path); it raises when nothing was saved there
LoadModel ==
    /\ pc = "load"
    /\ LET model_path == TestModelPath(fold) IN
       IF model_path \in DOMAIN fs
       THEN /\ ev' = [bound |-> TRUE, model |-> fs[model_path],
                      df |-> GetTestDf(test_loader.imgs), done |-> {}]
            /\ calls' = Append(calls, "load_model")
            /\ pc' = "predict"
            /\ exc' = exc
       ELSE /\ Raise("OSError")
            /\ UNCHANGED <<ev, calls>>
    /\ UNCHANGED <<args, nImages, train_splits, test_splits, foldIdx, fold, model, optimizer,
                   train_loader, val_loader, test_loader, learning_rate, train_loss, val_loss,
                   checkpoint, total_steps, current_epoch, local_step, global_step, fs,
                   k_metrics, results_df, config_writes, valHist, seen, phaseLog, cfg_steps,
                   config, data, swLog, sw>>

\* the next row of the data frame: the test cases are sorted (lines 338, 341)
NextCase(e) == CHOOSE c \in e.df \ e.done : \A d \in e.df \ e.done : c <= d

\* inference.main_inference.predict_single_example(image, original_image, config,
\* models, overlap, blend_mode, tta): the patch size is the configuration's
PredictSingleExample(cfg_patch_size, models, overlap, blend_mode, tta) ==
    Invocation("test_eval", cfg_patch_size, overlap, blend_mode, Len(models), tta)

\* lines 70-101, one iteration: the case is predicted with the loaded model, the
\* prediction evaluated and the row appended to self.results_df
PredictCase ==
    /\ pc = "predict"
    /\ ev.df \ ev.done # {}
    /\ LET c == NextCase(ev) IN
          /\ ev' = [ev EXCEPT !.done = @ \cup {c}]
          /\ results_df' = Append(results_df, [fold |-> fold, id |-> c])
          /\ seen' = [seen EXCEPT !.test = @ \cup {c}, !.by = @ \cup {ev.model}]
    /\ swLog' = swLog \cup {PredictSingleExample(config.self, <<ev.model>>, args.sw_overlap,
                                                 args.blend_mode, args.tta)}
    /\ calls' = Append(calls, "predict_evaluate")
    /\ UNCHANGED <<args, nImages, train_splits, test_splits, pc, foldIdx, fold, model,
                   optimizer, train_loader, val_loader, test_loader, learning_rate,
                   train_loss, val_loss, checkpoint, total_steps, current_epoch, local_step,
                   global_step, fs, k_metrics, config_writes, exc, valHist, phaseLog,
                   cfg_steps, config, data, sw>>

\* lines 70-101, one iteration in which inference or evaluation raises: nothing
\* in the loop or in train() catches it
PredictCaseFails ==
    /\ pc = "predict"
    /\ ev.df \ ev.done # {}
    /\ Raise("CaseError")
    /\ UNCHANGED <<args, nImages, train_splits, test_splits, foldIdx, fold, model, optimizer,
                   train_loader, val_loader, test_loader, learning_rate, train_loss, val_loss,
                   checkpoint, total_steps, current_epoch, local_step, global_step, fs,
                   k_metrics, results_df, config_writes, ev, calls, valHist, seen, phaseLog,
                   cfg_steps,
                   config, data, swLog, sw>>

\* lines 103-110: temporary files removed, the loaded model deleted
EvalCleanup ==
    /\ pc = "predict"
    /\ ev.df = ev.done
    /\ ev' = Unbound
    /\ pc' = "kfold_end"
    /\ UNCHANGED <<args, nImages, train_splits, test_splits, foldIdx, fold, model, optimizer,
                   train_loader, val_loader, test_loader, learning_rate, train_loss, val_loss,
                   checkpoint, total_steps, current_epoch, local_step, global_step, fs,
                   k_metrics, results_df, config_writes, exc, calls, valHist, seen, phaseLog,
                   cfg_steps,
                   config, data, swLog, sw>>

\* ---------------------------------------------------------------- train()
\* line 357: self.k_metrics.on_kFold_end(model, test_df, test_loader)
KFoldEnd ==
    /\ pc = "kfold_end"
    /\ k_metrics' = OnKFoldEnd(k_metrics, fold)
    /\ calls' = Append(calls, "on_kFold_end")
    /\ pc' = "release"
    /\ UNCHANGED <<args, nImages, train_splits, test_splits, foldIdx, fold, model, optimizer,
                   train_loader, val_loader, test_loader, learning_rate, train_loss, val_loss,
                   checkpoint, total_steps, current_epoch, local_step, global_step, fs,
                   results_df, config_writes, ev, exc, valHist, seen, phaseLog, cfg_steps,
                   config, data, swLog, sw>>

\* lines 360-363: del model, train_loader, val_loader; del test_loader
Release ==
    /\ pc = "release"
    /\ model' = Unbound
    /\ train_loader' = Unbound
    /\ val_loader' = Unbound
    /\ test_loader' = Unbound
    /\ phaseLog' = Append(phaseLog, <<fold, "FOLD_DONE">>)
    /\ calls' = <<>>
    /\ valHist' = <<>>
    /\ seen' = [train |-> {}, val |-> {}, test |-> {}, by |-> {}, unstable |-> FALSE,
              round |-> Mean]
    /\ pc' = "loop"
    /\ UNCHANGED <<args, nImages, train_splits, test_splits, foldIdx, fold, optimizer,
                   learning_rate, train_loss, val_loss, checkpoint, total_steps,
                   current_epoch, local_step, global_step, fs, k_metrics, results_df,
                   config_writes, ev, exc, cfg_steps,
                   config, data, swLog, sw>>

\* lines 366-368: the for statement is exhausted; self.k_metrics.on_training_end()
TrainingEnd ==
    /\ pc = "loop"
    /\ foldIdx >= Len(args.folds)
    /\ k_metrics' = OnTrainingEnd(k_metrics)
    /\ pc' = "done"
    /\ UNCHANGED <<args, nImages, train_splits, test_splits, foldIdx, fold, model, optimizer,
                   train_loader, val_loader, test_loader, learning_rate, train_loss, val_loss,
                   checkpoint, total_steps, current_epoch, local_step, global_step, fs,
                   results_df, config_writes, ev, exc, calls, valHist, seen, phaseLog,
                   cfg_steps,
                   config, data, swLog, sw>>

\* ------------------------------------------------------------------- run()
\* lines 402-411: the results statistics, the csv file, the post-processing
WriteResults ==
    /\ pc = "done"
    /\ pc' = "test_time"
    /\ UNCHANGED <<args, nImages, train_splits, test_splits, foldIdx, fold, model, optimizer,
                   train_loader, val_loader, test_loader, learning_rate, train_loss, val_loss,
                   checkpoint, total_steps, current_epoch, local_step, global_step, fs,
                   k_metrics, results_df, config_writes, ev, exc, calls, valHist, seen,
                   phaseLog, cfg_steps, config, data, swLog, sw>>

\* load_test_time_models(models_dir, False): the models saved right under models/best
LoadTestTimeModels(files) == {q \in DOMAIN files : Len(q) = 2 /\ q[1] = "best"}

\* inference.main_inference.test_time_inference(df, dest, config_file, models, overlap,
\* blend_mode, tta): the patch size is that of the configuration file
TestTimeInference(file_patch_size, models, overlap, blend_mode, tta) ==
    Invocation("test_time", file_patch_size, overlap, blend_mode, Cardinality(models), tta)

\* lines 413-430: inference on the test set if the data has one
RunTestTimeInference ==
    /\ pc = "test_time"
    /\ swLog' = IF data.test_data
                THEN swLog \cup {TestTimeInference(config.file, LoadTestTimeModels(fs),
                                                   args.sw_overlap, args.blend_mode, TRUE)}
                ELSE swLog
    /\ pc' = "exit"
    /\ UNCHANGED <<args, nImages, train_splits, test_splits, foldIdx, fold, model, optimizer,
                   train_loader, val_loader, test_loader, learning_rate, train_loss, val_loss,
                   checkpoint, total_steps, current_epoch, local_step, global_step, fs,
                   k_metrics, results_df, config_writes, ev, exc, calls, valHist, seen,
                   phaseLog, cfg_steps, config, data, sw>>

\* ------------------------------------------- sliding-window inference engine
Axes == 1..2

\* the voxels of a volume
Voxels(volume_shape) ==
    {v \in [Axes -> 0..(MaxVol - 1)] : \A a \in Axes : v[a] < volume_shape[a]}

\* the i-th origin along an axis, before clamping: i steps of patch * (1 - overlap),
\* the overlap being overlap_num / OverlapDen, at integer offset
StepOrigin(i, patch, overlap_num) == (i * patch * (OverlapDen - overlap_num)) \div OverlapDen

\* (mutant) the final origin is left where the steps put it
ClampSkipped(origin, last) == origin

\* the final origin is exactly volume_shape - patch_shape
Clamp(origin, last) == IF origin > last THEN last ELSE origin

\* the origins along one axis: start at 0, advance by the step size, the final
\* origin clamped
RECURSIVE AxisOriginsFrom(_, _, _, _)
AxisOriginsFrom(i, vol, patch, overlap_num) ==
    LET origin == StepOrigin(i, patch, overlap_num)
    IN  IF origin >= vol - patch
        THEN {Clamp(origin, vol - patch)}
        ELSE {origin} \cup AxisOriginsFrom(i + 1, vol, patch, overlap_num)

AxisOrigins(vol, patch, overlap_num) == AxisOriginsFrom(0, vol, patch, overlap_num)

\* the patch origins of a volume
Origins(volume_shape, patch_shape, overlap_num) ==
    {o \in [Axes -> 0..(MaxVol - 1)] :
        \A a \in Axes : o[a] \in AxisOrigins(volume_shape[a], patch_shape[a], overlap_num)}

\* the voxels of the region [origin, origin + patch_shape)
Region(volume_shape, origin, patch_shape) ==
    {v \in Voxels(volume_shape) :
        \A a \in Axes : origin[a] <= v[a] /\ v[a] < origin[a] + patch_shape[a]}

\* the blend weight of a patch voxel at offset d along an axis: 1 under "uniform";
\* under "gaussian" symmetric about the patch centre, largest there, positive
AxisWeight(blend_mode, d, patch) ==
    IF blend_mode = "uniform" THEN 1
    ELSE 1 + (IF d < patch - 1 - d THEN d ELSE patch - 1 - d)

BlendWeight(blend_mode, v, origin, patch_shape) ==
    AxisWeight(blend_mode, v[1] - origin[1], patch_shape[1])
        * AxisWeight(blend_mode, v[2] - origin[2], patch_shape[2])

\* PatchBlender.accumulate: weight_total after the patch at origin
Accumulate(weight_total, volume_shape, origin, patch_shape, blend_mode) ==
    [v \in DOMAIN weight_total |->
        IF v \in Region(volume_shape, origin, patch_shape)
        THEN weight_total[v] + BlendWeight(blend_mode, v, origin, patch_shape)
        ELSE weight_total[v]]

\* the origins in scan order
NextOrigin(pending) ==
    CHOOSE o \in pending :
        \A q \in pending : o[1] < q[1] \/ (o[1] = q[1] /\ o[2] <= q[2])

\* the shapes of the volumes, and of the patches that fit a volume
Shapes == [Axes -> 1..MaxVol]

PatchShapes(volume_shape) == {q \in Shapes : \A a \in Axes : q[a] <= volume_shape[a]}

\* the other variables, which an inference call leaves alone
runVars == <<args, nImages, train_splits, test_splits, pc, foldIdx, fold,
             model, optimizer, train_loader, val_loader, test_loader, learning_rate,
             train_loss, val_loss, checkpoint,
             total_steps, current_epoch, local_step, global_step,
             fs, k_metrics, results_df, config_writes, ev, exc,
             calls, valHist, seen, phaseLog, cfg_steps, config, data, swLog>>

\* one inference call has its inputs and an empty accumulator
InitSW ==
    /\ nImages = 3
    /\ args = [nfolds |-> 3, folds |-> <<0>>, epochs |-> 1, steps_per_epoch |-> Some(2),
               batch_size |-> 1, optimizer |-> "adam", patch_size |-> None,
               sw_overlap |-> 50, blend_mode |-> "gaussian", tta |-> FALSE]
    /\ data = [test_data |-> FALSE]
    /\ config = [local |-> None, self |-> None, file |-> None]
    /\ Constructed
    /\ pc = "inference"
    /\ \E vs \in Shapes, o \in 0..(OverlapDen - 1), b \in BlendModes :
       \E ps \in PatchShapes(vs) :
          sw = [phase |-> "tiling", volume_shape |-> vs, patch_shape |-> ps,
                overlap_num |-> o, blend_mode |-> b,
                pending |-> Origins(vs, ps, o),
                weight_total |-> [v \in Voxels(vs) |-> 0]]

\* step 2: the next patch is predicted and accumulated
AccumulatePatch ==
    /\ sw.phase = "tiling"
    /\ sw.pending # {}
    /\ LET origin == NextOrigin(sw.pending) IN
          sw' = [sw EXCEPT !.pending = @ \ {origin},
                           !.weight_total = Accumulate(@, sw.volume_shape, origin,
                                                       sw.patch_shape, sw.blend_mode)]
    /\ UNCHANGED runVars

\* step 3: finalize divides by weight_total; a voxel of weight zero fails it
Finalize ==
    /\ sw.phase = "tiling"
    /\ sw.pending = {}
    /\ sw' = [sw EXCEPT !.phase = IF \A v \in DOMAIN sw.weight_total : sw.weight_total[v] > 0
                                  THEN "finalized" ELSE "zero_weight"]
    /\ UNCHANGED runVars

NextSW == AccumulatePatch \/ Finalize

SpecSW == InitSW /\ [][NextSW]_vars

\* --------------------------------------------------------------------- run
Next ==
    \/ GetFolds \/ WriteConfig \/ CreateKMetrics \/ ForFold \/ FoldInit
    \/ TrainFetch \/ TrainStep \/ ValStep \/ CheckpointUpdate \/ LogsUpdate
    \/ AfterLoop \/ SaveLast \/ PrepareTest
    \/ LoadModel \/ PredictCase \/ PredictCaseFails \/ EvalCleanup
    \/ KFoldEnd \/ Release \/ TrainingEnd
    \/ WriteResults \/ RunTestTimeInference

Spec == Init /\ [][Next]_vars

\* a run goes on while it has a statement to execute
FairSpec == Spec /\ WF_vars(Next)

\* ================================================================ claims
\* the positions of train() between a fold's INIT and the release of its resources
FoldPcs == {"fetch", "train_step", "val", "logs", "after_loop", "save_last",
            "prepare_test", "load", "predict", "kfold_end", "release"}

\* the positions of run() once train() has returned
TrainedPcs == {"done", "test_time", "exit"}

\* the steps per epoch in effect
Spe == args.steps_per_epoch[1]

TrainSteps == Count(calls, "train_step")

ValRounds == Len(valHist)

\* C1: in every fold with epochs >= 1 and steps_per_epoch >= 1 (the train iterator
\* never running out), train_step is never called more than epochs * steps_per_epoch
\* times, and when the training loop has ended it was called exactly
\* epochs * steps_per_epoch times and exactly `epochs` validation rounds were run,
\* steps_per_epoch = 1 included.
C1_StepBudget ==
    (pc \in FoldPcs /\ Spe >= 1) =>
        /\ TrainSteps <= args.epochs * Spe
        /\ pc = "after_loop" => (TrainSteps = args.epochs * Spe /\ ValRounds = args.epochs)

\* the calls of the fold that the epoch cycle is made of
CycleCalls ==
    LET Keep(e) == e \in {"train_step", "val_step", "checkpoint_update", "on_epoch_end"}
    IN  SelectSeq(calls, Keep)

\* the i-th call of the cycle as claimed: steps_per_epoch train steps, one val_step
\* per validation case, one checkpoint update, one on_epoch_end, and again
CycleCall(i, nVal) ==
    LET at == (i - 1) % (Spe + nVal + 2)
    IN  IF at < Spe THEN "train_step"
        ELSE IF at < Spe + nVal THEN "val_step"
        ELSE IF at = Spe + nVal THEN "checkpoint_update"
        ELSE "on_epoch_end"

\* C2: within a fold the calls follow the cycle "steps_per_epoch train steps, then
\* val_step over every validation case, then one CheckpointManager.update, then one
\* MetricsAggregator.on_epoch_end", so that on_epoch_end has fired once per
\* completed epoch, after that epoch's update and before the next train_step.
\* Stated for steps_per_epoch >= 2, where the code runs a validation round at
\* every epoch boundary.
C2_EpochBoundaryOrder ==
    (pc \in FoldPcs /\ Spe >= 2) =>
        LET nVal == Cardinality(val_loader.imgs)
        IN  /\ Len(CycleCalls) <= args.epochs * (Spe + nVal + 2)
            /\ \A i \in 1..Len(CycleCalls) : CycleCalls[i] = CycleCall(i, nVal)

\* the validation rounds whose loss no other round's loss is below
MinRounds == {i \in DOMAIN valHist : \A j \in DOMAIN valHist : ~LossLess(valHist[j].loss, valHist[i].loss)}

EarliestMinRound == CHOOSE i \in MinRounds : \A j \in MinRounds : i <= j

\* C3: within a fold best_loss is +infinity until the first validation round and
\* from then on equals the minimum of the losses handed to update so far; once the
\* end-of-training save is done, the snapshot at best_path is the model state of
\* the earliest round that achieved that minimum.
C3_BestCheckpoint ==
    pc \in FoldPcs =>
        /\ valHist = <<>> => checkpoint.best_val_loss = Inf
        /\ valHist # <<>> => \E i \in MinRounds : LossEq(checkpoint.best_val_loss, valHist[i].loss)
        /\ (valHist # <<>> /\ pc \in {"prepare_test", "load", "predict", "kfold_end", "release"}) =>
              /\ checkpoint.best_model_path \in DOMAIN fs
              /\ fs[checkpoint.best_model_path] = valHist[EarliestMinRound].state

\* C3's case: the end-of-training save is done after two rounds of equal loss, the
\* best snapshot being the first round's state and not the model in memory
C3_Witness ==
    /\ pc = "prepare_test"
    /\ Len(valHist) = 2
    /\ LossEq(valHist[1].loss, valHist[2].loss)
    /\ fs[checkpoint.best_model_path] = valHist[1].state
    /\ fs[checkpoint.best_model_path] # Snapshot(model)

\* the content of a path, if any
File(files, path) == IF path \in DOMAIN files THEN <<files[path]>> ELSE <<>>

\* C4: an update with a loss equal to best_loss writes the `last` snapshot, does
\* not write the `best` snapshot and leaves best_loss as it was; a `best` snapshot
\* changes only in an update with a loss strictly below best_loss.
C4_TieKeepsBest ==
    /\ [][(pc = "val" /\ pc' = "logs" /\ LossEq(val_loss, checkpoint.best_val_loss)) =>
            /\ File(fs', checkpoint.last_model_path) = <<Snapshot(model)>>
            /\ File(fs', checkpoint.best_model_path) = File(fs, checkpoint.best_model_path)
            /\ checkpoint'.best_val_loss = checkpoint.best_val_loss]_vars
    /\ [][\A f \in 0..(args.nfolds - 1) :
            File(fs', BestModelPath(f)) # File(fs, BestModelPath(f)) =>
                /\ pc = "val" /\ pc' = "logs" /\ f = fold
                /\ LossLess(val_loss, checkpoint.best_val_loss)]_vars

\* C4's case: an update has just been made with a loss equal to the best loss of
\* an earlier round; `last` holds this round's state, `best` the earlier one's
C4_Witness ==
    /\ pc = "logs"
    /\ Len(valHist) >= 2
    /\ LossEq(valHist[Len(valHist)].loss, valHist[1].loss)
    /\ LossEq(checkpoint.best_val_loss, valHist[1].loss)
    /\ fs[checkpoint.last_model_path] = valHist[Len(valHist)].state
    /\ fs[checkpoint.best_model_path] = valHist[1].state

TrainingCalls == {"train_step", "val_step", "checkpoint_update", "logs_update", "on_epoch_end", "save_last_model"}

TestCalls == {"load_model", "predict_evaluate", "on_kFold_end"}

\* C5: in a fold the test evaluation comes after the training loop has ended (no
\* training call follows a test-evaluation call, and the step budget is used up);
\* every prediction is made by the model state stored at the fold's best
\* checkpoint; on_kFold_end is called only when every held-out test case of the
\* fold has been predicted and its row handed over, and once per fold.
C5_TestEvalOrder ==
    pc \in FoldPcs =>
        /\ \A i, j \in DOMAIN calls : (i < j /\ calls[i] \in TestCalls) => calls[j] \notin TrainingCalls
        /\ (\E i \in DOMAIN calls : calls[i] \in TestCalls) => global_step >= total_steps
        /\ seen.by # {} => seen.by = {fs[checkpoint.best_model_path]}
        /\ Count(calls, "on_kFold_end") = (IF pc = "release" THEN 1 ELSE 0)
        /\ pc = "release" =>
              /\ seen.test = test_splits[fold + 1]
              /\ \A c \in test_splits[fold + 1] :
                    \E r \in DOMAIN results_df : results_df[r] = [fold |-> fold, id |-> c]
              /\ calls[Len(calls)] = "on_kFold_end"

\* C5's case: on_kFold_end has been called after two test cases were predicted by
\* the best checkpoint's state, which is not the state of the model in memory
C5_Witness ==
    /\ pc = "release"
    /\ Cardinality(seen.test) = 2
    /\ seen.by = {fs[checkpoint.best_model_path]}
    /\ Snapshot(model) \notin seen.by

Phases == <<"INIT", "TRAIN_VAL_CYCLE", "FOLD_TEST_EVAL", "FOLD_DONE">>

\* the phases of a run over the requested folds: each fold's four phases, fold by fold
ExpectedPhases(folds) ==
    [i \in 1..(4 * Len(folds)) |-> <<folds[((i - 1) \div 4) + 1], Phases[((i - 1) % 4) + 1]>>]

\* C6: the folds are processed one at a time in the requested order, each through
\* INIT, TRAIN_VAL_CYCLE, FOLD_TEST_EVAL, FOLD_DONE; on_kFold_end is called fold by
\* fold in that order; on_training_end is called at most once, only after every
\* requested fold has reached FOLD_DONE and had its on_kFold_end, and a run that
\* completes has called it once.
C6_FoldsSequential ==
    /\ IsPrefix(phaseLog, ExpectedPhases(args.folds))
    /\ k_metrics.bound =>
          /\ IsPrefix(k_metrics.fold_rows, args.folds)
          /\ k_metrics.training_ends <= 1
          /\ k_metrics.training_ends = 1 =>
                (phaseLog = ExpectedPhases(args.folds) /\ k_metrics.fold_rows = args.folds)
          /\ pc \in TrainedPcs <=> k_metrics.training_ends = 1

\* C6's case: a run over two folds has completed
C6_Witness ==
    /\ pc = "done"
    /\ Len(args.folds) = 2
    /\ k_metrics.fold_rows = args.folds
    /\ k_metrics.training_ends = 1

\* C7: when a fold has reached FOLD_DONE (the for statement is about to take the
\* next fold or to end) the orchestrator holds no reference to a model, an
\* optimizer or a data iterator.
C7_ResourcesReleased ==
    ((pc = "loop" /\ foldIdx > 0) \/ pc = "done") =>
        /\ ~model.bound
        /\ ~optimizer.bound
        /\ ~train_loader.bound /\ ~val_loader.bound /\ ~test_loader.bound

\* C8: right after a fold's INIT the model, optimizer, checkpoint state, loss
\* accumulators and counters are fresh, and steps_per_epoch and the step budget
\* are those the run's configuration and the fold's own training data give.
C8_FreshFoldState ==
    (pc = "fetch" /\ train_loader.yielded = 0) =>
        /\ model = [bound |-> TRUE, fold |-> fold, version |-> 0]
        /\ optimizer = [bound |-> TRUE, fold |-> fold, steps |-> 0]
        /\ checkpoint.best_val_loss = Inf
        /\ train_loss = Mean /\ val_loss = Mean
        /\ current_epoch = 1 /\ local_step = 1
        /\ args.steps_per_epoch =
              StepsPerEpoch(cfg_steps, Cardinality(train_loader.imgs), args.batch_size)
        /\ total_steps = args.epochs * Spe

\* C9: the folds' test index sets cover the index range, each index in exactly one
\* of them; per fold the train and test indices are disjoint; the validation cases
\* and the remaining training cases together are the fold's training indices; no
\* case of the fold's test evaluation was given to train_step or val_step.
C9_FoldPartition ==
    pc # "kfold" =>
        /\ UNION {test_splits[f] : f \in DOMAIN test_splits} = 0..(nImages - 1)
        /\ \A f, g \in DOMAIN test_splits : f # g => test_splits[f] \cap test_splits[g] = {}
        /\ Len(test_splits) = args.nfolds /\ Len(train_splits) = args.nfolds
        /\ \A f \in DOMAIN train_splits : train_splits[f] \cap test_splits[f] = {}
        /\ pc \in FoldPcs =>
              /\ train_loader.imgs \cup val_loader.imgs = train_splits[fold + 1]
              /\ seen.train \subseteq train_loader.imgs
              /\ seen.val \subseteq val_loader.imgs
              /\ seen.test \cap (seen.train \cup seen.val) = {}

\* C9's case: a fold of a 3-fold split has trained, validated and evaluated its
\* two test cases
C9_Witness ==
    /\ pc = "release"
    /\ args.nfolds = 3
    /\ seen.train # {} /\ seen.val # {}
    /\ Cardinality(seen.test) = 2

\* C10: a test case whose inference or evaluation fails does not end the run (the
\* other cases, on_kFold_end and the following folds still follow).
C10_CaseFailureIsolated == exc # "CaseError"

\* C11: once a train_step of a fold has had a NaN or infinite loss, the fold makes
\* no further train_step and no checkpoint update (no write of the best or of the
\* last model).
C11_UnstableStepStopsFold ==
    [][(seen.unstable /\ Len(calls') > Len(calls)) =>
          calls'[Len(calls')] \notin {"train_step", "checkpoint_update"}]_vars

\* C12: a run of train() writes the configuration file exactly once, with the
\* run's patch size in it, and does so before the INIT of the first fold; no fold
\* writes the configuration file.
C12_ConfigWrittenOnce ==
    /\ [](/\ config_writes <= 1
          /\ (phaseLog # <<>> \/ pc \in TrainedPcs) =>
                /\ config_writes = 1
                /\ config.file = PatchSize(args.patch_size))
    /\ [][config_writes' # config_writes => phaseLog' = <<>>]_vars

\* C12's case: a run over two folds has completed; the file holds the default
\* patch size
C12_Witness ==
    /\ pc = "done"
    /\ Len(phaseLog) = 8
    /\ config_writes = 1
    /\ args.patch_size = None /\ config.file = Some(DefaultPatchSize)

\* the call sites inference has been invoked from
Sites == {a.site : a \in swLog}

\* C13: every invocation of inference in a run (per-epoch validation, end-of-fold
\* test evaluation, final test-set prediction) has the run's overlap, blend mode
\* and patch size; validation uses exactly one model, without test-time
\* augmentation.
C13_SameInferenceConfig ==
    /\ \A a \in swLog :
          /\ a.overlap = args.sw_overlap
          /\ a.blend = args.blend_mode
          /\ a.patch = PatchSize(args.patch_size)
          /\ a.site = "val" => (a.models = 1 /\ ~a.tta)
    /\ \A a, b \in swLog : a.patch = b.patch /\ a.overlap = b.overlap /\ a.blend = b.blend

\* C13's case: inference has been invoked from the three call sites, in a run with
\* test-time augmentation on and a patch size other than the stored one
C13_Witness ==
    /\ pc = "exit"
    /\ Sites = {"val", "test_eval", "test_time"}
    /\ args.tta
    /\ args.patch_size = Some(64)

\* C14: for a patch that fits the volume and an overlap in [0, 1) the origins
\* along each axis start at 0 and end exactly at volume_shape - patch_shape, the
\* patch regions together cover every voxel, and once every patch is accumulated
\* every voxel's weight_total is positive.
C14_PatchesCoverVolume ==
    sw.phase # "idle" =>
        /\ \A a \in Axes :
              LET origins == AxisOrigins(sw.volume_shape[a], sw.patch_shape[a], sw.overlap_num)
                  last == sw.volume_shape[a] - sw.patch_shape[a]
              IN  0 \in origins /\ last \in origins /\ \A o \in origins : 0 <= o /\ o <= last
        /\ UNION {Region(sw.volume_shape, o, sw.patch_shape) :
                    o \in Origins(sw.volume_shape, sw.patch_shape, sw.overlap_num)}
              = Voxels(sw.volume_shape)
        /\ sw.pending = {} => \A v \in DOMAIN sw.weight_total : sw.weight_total[v] > 0
        /\ sw.phase # "zero_weight"

\* C14's case: a volume that the step does not divide evenly has been tiled with
\* overlapping patches and finalized
C14_Witness ==
    /\ sw.phase = "finalized"
    /\ sw.volume_shape = <<4, 3>> /\ sw.patch_shape = <<3, 2>>
    /\ sw.overlap_num = 1
    /\ \E v \in DOMAIN sw.weight_total : sw.weight_total[v] > 1

\* C15: a validation round starts with an empty validation-loss accumulator, and
\* the loss handed to checkpoint.update is the mean of the losses of that round's
\* val_step calls, one per validation case.
C15_RoundLossOnly ==
    /\ pc = "val" => val_loss = seen.round
    /\ (pc = "val" /\ val_loader.taken = {}) => val_loss = Mean
    /\ pc = "logs" =>
          /\ valHist[Len(valHist)].loss = seen.round
          /\ seen.round.count = Cardinality(val_loader.imgs)

\* C15's case: the second fold of a run hands the loss of its second validation
\* round, which differs from that of its first, to checkpoint.update
C15_Witness ==
    /\ pc = "logs"
    /\ foldIdx = 2
    /\ Len(valHist) = 2
    /\ ~LossEq(valHist[1].loss, valHist[2].loss)

\* C16: for every epochs >= 1 and steps_per_epoch >= 1, when the test evaluation
\* loads the model from the best path the fold has completed at least one
\* checkpoint update and the best checkpoint exists.
C16_BestExistsAtTestEval ==
    (pc = "load" /\ Spe >= 1) =>
        /\ Count(calls, "checkpoint_update") >= 1
        /\ TestModelPath(fold) \in DOMAIN fs

\* C17: at every train_step call current_epoch = global_step div steps_per_epoch + 1,
\* local_step = global_step mod steps_per_epoch + 1 and 1 <= current_epoch <= epochs,
\* for every steps_per_epoch >= 1.
C17_CountersAgree ==
    (pc = "train_step" /\ Spe >= 1) =>
        /\ current_epoch = (global_step \div Spe) + 1
        /\ local_step = (global_step % Spe) + 1
        /\ 1 <= current_epoch /\ current_epoch <= args.epochs

\* C18: whatever the optimizer, the learning rate handed to on_epoch_end was read
\* from the fold's own optimizer, and the call does not fail for want of it.
C18_LearningRateRead ==
    /\ exc # "UnboundLocalError"
    /\ k_metrics.bound =>
          \A i \in DOMAIN k_metrics.epoch_rows :
              LET row == k_metrics.epoch_rows[i]
              IN  row.learning_rate.bound /\ row.learning_rate.fold = row.fold

\* the failures of a collaborator: a test case that cannot be predicted or
\* evaluated, training data that cannot be split
CollaboratorFailures == {"CaseError", "ValueError"}

\* C19: a run in which no collaborator fails does not stop before every requested
\* fold has reached FOLD_DONE and on_training_end has been called.
C19_RunCompletes ==
    (~ENABLED Next /\ exc \notin CollaboratorFailures) =>
        /\ phaseLog = ExpectedPhases(args.folds)
        /\ k_metrics.bound
        /\ k_metrics.training_ends = 1

====
